---- MODULE Spec2Model ----
(***************************************************************************)
(* A model of nanogenmogen.py, the tool that bootstraps each year's        *)
(* NaNoGenMo repository: the memoised year resolver, run_commands, the     *)
(* five operations main() selects by flag, the README substitutions and    *)
(* the two issue bodies.                                                   *)
(*                                                                         *)
(* Text is a sequence of atoms.  An atom is one character where the code   *)
(* looks at characters (digits, blanks, tabs, newlines, brackets, '/') and *)
(* a fixed word elsewhere; two literals of the source that share a part    *)
(* share its atoms, so a substring match on the atoms follows the match on *)
(* the characters.                                                         *)
(***************************************************************************)
EXTENDS Integers, Sequences, FiniteSets, TLC

VARIABLES
    clock,      \* the calendar year the system clock shows
    cacheThis,  \* functools.cache of this_year(): <<>> or <<year>>
    cacheLast,  \* functools.cache of last_year(): <<>> or <<year>>
    retThis,    \* every value this_year() has returned in this process
    retLast,    \* every value last_year() has returned in this process
    args,       \* the operations selected by the command-line flags
    op,         \* main(): index of the operation being tested or run
    step,       \* index of the next statement of that operation, 0 at its if
    commands,   \* run_commands: the text it was called with
    pending,    \* run_commands: the lines still to go through, in order
    inRun,      \* TRUE inside a run_commands call
    status,     \* "running", "done" (exit 0) or "failed" (uncaught exception)
    cwd,        \* the process working directory
    dirs,       \* the scratch directories that exist on the filesystem
    remote,     \* the repositories of hugovk/ that exist on the host
    trace,      \* what the process has done so far, in order
    readme,     \* README.md of the working copy
    readme0,    \* README.md before the first update
    readmePrev, \* README.md before the latest update
    passes,     \* how many times the README was updated
    issue1,     \* /tmp/issue1.txt
    issue2      \* /tmp/issue2.txt

vars == <<clock, cacheThis, cacheLast, retThis, retLast, args, op, step,
          commands, pending, inRun, status, cwd, dirs, remote, trace, readme,
          readme0, readmePrev, passes, issue1, issue2>>

yearVars == <<clock, cacheThis, cacheLast, retThis, retLast>>
runVars == <<commands, pending, inRun, status, trace>>
mainVars == <<args, op, step, cwd, dirs, remote>>
readmeVars == <<readme, readme0, readmePrev, passes>>
issueVars == <<issue1, issue2>>

(***************************************************************************)
(* Bounds and program constants                                            *)
(***************************************************************************)
FloorYear == 2016
YearSpan == 10
MinYear == FloorYear + 1
MaxYear == FloorYear + YearSpan
Years == MinYear..MaxYear

(***************************************************************************)
(* Text                                                                    *)
(***************************************************************************)
NL == "\n"
SP == " "
TAB == "\t"

Digit(d) ==
    CASE d = 0 -> "0" [] d = 1 -> "1" [] d = 2 -> "2" [] d = 3 -> "3"
      [] d = 4 -> "4" [] d = 5 -> "5" [] d = 6 -> "6" [] d = 7 -> "7"
      [] d = 8 -> "8" [] d = 9 -> "9"

RECURSIVE Str(_)
\* str(n) of an integer, as the f-strings format the years
Str(n) ==
    IF n < 0 THEN <<"-">> \o Str(0 - n)
    ELSE IF n < 10 THEN <<Digit(n)>>
    ELSE Str(n \div 10) \o <<Digit(n % 10)>>

RECURSIVE Cat(_)
\* the concatenation of a sequence of texts
Cat(ts) == IF ts = <<>> THEN <<>> ELSE Head(ts) \o Cat(Tail(ts))

StartsWith(s, p) == Len(p) <= Len(s) /\ SubSeq(s, 1, Len(p)) = p

\* p in s, for str
Contains(s, p) == \E i \in 1..(Len(s) - Len(p) + 1) : SubSeq(s, i, i + Len(p) - 1) = p

\* the number of places of s where p starts
Count(s, p) == Cardinality({i \in 1..(Len(s) - Len(p) + 1) : SubSeq(s, i, i + Len(p) - 1) = p})

\* the first place of s where p starts, 0 when there is none
Find(s, p) ==
    LET at == {i \in 1..(Len(s) - Len(p) + 1) : SubSeq(s, i, i + Len(p) - 1) = p}
    IN  IF at = {} THEN 0 ELSE CHOOSE i \in at : \A j \in at : i <= j

\* str.replace(old, new, 1): the first occurrence only
ReplaceFirst(s, old, new) ==
    LET k == Find(s, old)
    IN  IF k = 0 THEN s ELSE SubSeq(s, 1, k - 1) \o new \o SubSeq(s, k + Len(old), Len(s))

RECURSIVE Replace(_, _, _)
\* str.replace(old, new): every occurrence, left to right, without overlap
Replace(s, old, new) ==
    LET k == Find(s, old)
    IN  IF k = 0 THEN s
        ELSE SubSeq(s, 1, k - 1) \o new \o Replace(SubSeq(s, k + Len(old), Len(s)), old, new)

RECURSIVE Split(_)
\* text.split("\n"): the pieces between the newlines, at least one
Split(t) ==
    IF \A i \in 1..Len(t) : t[i] # NL THEN <<t>>
    ELSE LET k == CHOOSE i \in 1..Len(t) : t[i] = NL /\ \A j \in 1..(i - 1) : t[j] # NL
         IN  <<SubSeq(t, 1, k - 1)>> \o Split(SubSeq(t, k + 1, Len(t)))

\* str.splitlines(): as Split, but a final newline opens no further line
SplitLines(t) ==
    LET ps == Split(t)
    IN  IF ps[Len(ps)] = <<>> THEN SubSeq(ps, 1, Len(ps) - 1) ELSE ps

RECURSIVE Join(_)
\* "\n".join(pieces)
Join(ps) ==
    IF Len(ps) = 0 THEN <<>>
    ELSE IF Len(ps) = 1 THEN ps[1]
    ELSE ps[1] \o <<NL>> \o Join(Tail(ps))

IsBlank(a) == a = SP \/ a = TAB

\* a line of blanks and tabs only (the empty line included)
WhitespaceOnly(l) == \A i \in 1..Len(l) : IsBlank(l[i])

\* the leading blanks and tabs of a line
Indent(l) ==
    LET n == IF WhitespaceOnly(l) THEN Len(l)
             ELSE (CHOOSE i \in 1..Len(l) : ~IsBlank(l[i]) /\ \A j \in 1..(i - 1) : IsBlank(l[j])) - 1
    IN  SubSeq(l, 1, n)

\* the longest text every line of ls starts with
CommonPrefix(ls) ==
    IF ls = {} THEN <<>>
    ELSE LET one == CHOOSE l \in ls : TRUE
             ok(n) == \A l \in ls : Len(l) >= n /\ SubSeq(l, 1, n) = SubSeq(one, 1, n)
             best == CHOOSE n \in 0..Len(one) : ok(n) /\ \A m \in (n + 1)..Len(one) : ~ok(m)
         IN  SubSeq(one, 1, best)

\* textwrap.dedent on the pieces of a text: a whitespace-only line becomes
\* empty, the margin is the longest leading whitespace the other lines share
DedentPieces(ps) ==
    LET full == {i \in 1..Len(ps) : ~WhitespaceOnly(ps[i])}
        margin == CommonPrefix({Indent(ps[i]) : i \in full})
    IN  [i \in 1..Len(ps) |->
            IF i \in full THEN SubSeq(ps[i], Len(margin) + 1, Len(ps[i])) ELSE <<>>]

\* textwrap.dedent(text)
Dedent(t) == Join(DedentPieces(Split(t)))

(***************************************************************************)
(* Year resolver                                                           *)
(***************************************************************************)
\* this_year() without @cache: the clock is read at every call
this_year_uncached(cache, clk) == clk

\* this_year(): the cached value when there is one, the clock's year otherwise
this_year(cache, clk) == IF cache = <<>> THEN clk ELSE cache[1]

\* last_year()'s body: this_year() - 1
last_year_body(ty) == ty - 1

\* the value a call of last_year() returns
last_year(cacheL, cacheT, clk) ==
    IF cacheL = <<>> THEN last_year_body(this_year(cacheT, clk)) ELSE cacheL[1]

\* the year caches and the returned values after calls of the functions in
\* uses, a subset of {"this_year", "last_year"}; last_year() calls this_year()
\* only when its own cache is empty
CallYears(uses) ==
    LET callsThis == "this_year" \in uses \/ ("last_year" \in uses /\ cacheLast = <<>>)
        ty == this_year(cacheThis, clock)
        ly == last_year(cacheLast, cacheThis, clock)
    IN  /\ cacheThis' = IF callsThis THEN <<ty>> ELSE cacheThis
        /\ retThis' = IF callsThis THEN retThis \cup {ty} ELSE retThis
        /\ cacheLast' = IF "last_year" \in uses THEN <<ly>> ELSE cacheLast
        /\ retLast' = IF "last_year" \in uses THEN retLast \cup {ly} ELSE retLast

(***************************************************************************)
(* Literal texts of the source                                             *)
(***************************************************************************)
GitHub == <<"https:", "/", "/", "github.com", "/">>

\* "* [{label}](https://github.com/{path})"
Link(label, path) == <<"*", SP, "[">> \o label \o <<"]", "(">> \o GitHub \o path \o <<")">>

\* "# NaNoGenMo {y}"
Title(y) == <<"#", SP, "NaNoGenMo", SP>> \o Str(y)

\* "NaNoGenMo/{y}/issues?q=label"
IssueQuery(y) == <<"NaNoGenMo", "/">> \o Str(y) \o <<"/", "issues", "?q=label">>

\* "This is the {y} edition."
Edition(y) == <<"This", SP, "is", SP, "the", SP>> \o Str(y) \o <<SP, "edition", ".">>

\* "* [{y}](https://github.com/NaNoGenMo/{y})"
YearEntry(y) == Link(Str(y), <<"NaNoGenMo", "/">> \o Str(y))

\* "* [{y}](https://github.com/NaNoGenMo/{y}/issues/{n})"
IssueEntry(y, n) == Link(Str(y), <<"NaNoGenMo", "/">> \o Str(y) \o <<"/", "issues", "/">> \o Str(n))

(***************************************************************************)
(* README Updater                                                          *)
(***************************************************************************)
\* the pairs with the issue-query link left at last year's
ReplacementsStaleLink(ly, ty) ==
    << <<Title(ly), Title(ty)>>,
       <<Edition(ly), Edition(ty)>>,
       <<YearEntry(ly - 1), YearEntry(ly) \o <<NL>> \o YearEntry(ly - 1)>>,
       <<IssueEntry(ly - 1, 1), IssueEntry(ly - 1, 1) \o <<NL>> \o IssueEntry(ly, 1)>> >>

\* the (old, new) pairs of update_readme, in the order of the source
Replacements(ly, ty) ==
    << <<Title(ly), Title(ty)>>,
       <<IssueQuery(ly), IssueQuery(ty)>>,
       <<Edition(ly), Edition(ty)>>,
       <<YearEntry(ly - 1), YearEntry(ly) \o <<NL>> \o YearEntry(ly - 1)>>,
       <<IssueEntry(ly - 1, 1), IssueEntry(ly - 1, 1) \o <<NL>> \o IssueEntry(ly, 1)>> >>

RECURSIVE ReplaceAll(_, _)
\* the loop of update_readme: readme = readme.replace(old, new) for each pair
ReplaceAll(text, reps) ==
    IF reps = <<>> THEN text
    ELSE ReplaceAll(Replace(text, Head(reps)[1], Head(reps)[2]), Tail(reps))

\* the README that update_readme writes back
UpdatedReadme(text, ly, ty) == ReplaceAll(text, Replacements(ly, ty))

(***************************************************************************)
(* Issue bodies                                                            *)
(***************************************************************************)
RECURSIVE RangeDown(_, _)
\* range(start, stop, -1): start, start - 1, ... while above stop
RangeDown(start, stop) ==
    IF start > stop THEN <<start>> \o RangeDown(start - 1, stop) ELSE <<>>

\* range(last_year(), 2016, -1): the loop stops one year early
LoopStopAtFloor == FloorYear

\* the stop of both loops of create_issues, written 2016 - 1
LoopStop == FloorYear - 1

Ind4 == <<SP, SP, SP, SP>>

Issue1Intro ==
    Dedent(Ind4 \o <<"This is an open issue where you can comment and add resources that might come in handy for NaNoGenMo.", NL>>
           \o <<NL>>
           \o Ind4 \o <<"There are already a ton of resources on the old resources threads of previous editions:", NL>>
           \o <<NL>>
           \o Ind4)

\* the text written to /tmp/issue1.txt
Issue1Text(ly) ==
    LET ys == RangeDown(ly, LoopStop)
    IN  Issue1Intro
        \o Cat([i \in 1..Len(ys) |-> IssueEntry(ys[i], 1) \o <<NL>>])
        \o Link(Str(2015), <<"dariusk", "/", "NaNoGenMo", "-">> \o Str(2015) \o <<"/", "issues", "/">> \o Str(1)) \o <<NL>>
        \o Link(Str(2014), <<"dariusk", "/", "nanogenmo", "-">> \o Str(2014) \o <<"/", "issues", "/">> \o Str(1)) \o <<NL>>
        \o Link(Str(2013), <<"dariusk", "/", "NaNoGenMo", "/", "issues", "/">> \o Str(11)) \o <<NL>>

\* the text written to /tmp/issue2.txt
Issue2Text(ly) ==
    LET ys == RangeDown(ly, LoopStop)
    IN  <<"Links to previous years:", NL, NL>>
        \o Cat([i \in 1..Len(ys) |-> IssueEntry(ys[i], 2) \o <<NL>>])
        \o IssueEntry(2016, 5) \o <<NL>>
        \o Link(Str(2015), <<"dariusk", "/", "NaNoGenMo", "-">> \o Str(2015) \o <<"/", "issues", "/">> \o Str(9)) \o <<NL>>
        \o Link(Str(2014), <<"dariusk", "/", "NaNoGenMo", "-">> \o Str(2014) \o <<"/", "issues", "/">> \o Str(92)) \o <<NL>>

(***************************************************************************)
(* The operations, statement by statement                                  *)
(***************************************************************************)
Ops == <<"create_repo", "clone_repo", "update_readme", "create_labels", "create_issues">>

\* a statement: its kind, the directory or the text it is about, and the
\* year functions evaluating it calls
S(k, d, t, u) == [k |-> k, dir |-> d, text |-> t, uses |-> u]

THIS == {"this_year"}
LAST == {"last_year"}
BOTH == {"this_year", "last_year"}

DefaultLabels ==
    <<"bug", "documentation", "duplicate", "enhancement", "good first issue",
      "help wanted", "invalid", "question", "wontfix">>

LabelDelete(l) == <<"gh label delete --yes ", "\"", l, "\"">>
LabelList == <<"gh label list">>
RepoCreate(ty) == <<"gh repo create ">> \o Str(ty) \o <<" --private">>
BareClone(ly) == <<"git clone --bare ">> \o GitHub \o <<"NaNoGenMo", "/">> \o Str(ly) \o <<".git">>
MirrorPush(ty) == <<"git push --mirror ">> \o GitHub \o <<"hugovk", "/">> \o Str(ty) \o <<".git">>
Clone(ty) ==
    <<"git clone ">> \o GitHub \o <<"hugovk", "/">> \o Str(ty)
    \o <<SP, "/", "tmp", "/", "update-repo", "/">> \o Str(ty)
IssueCreate(file, title) ==
    <<"gh issue create --label \"admin\" --body-file ", "\"", file, "\"", " --title ", "\"", title, "\"">>

create_repo(ty, ly) ==
    << S("say", "", <<"Creating ">> \o GitHub \o <<"hugovk", "/">> \o Str(ty) \o <<"...">>, THIS),
       S("mkdir", "create", <<>>, {}),
       S("chdir", "create", <<>>, {}),
       S("run", "",
         Ind4 \o <<"#", " Create destination repo on GitHub", NL>>
         \o Ind4 \o RepoCreate(ty) \o <<NL>>
         \o <<NL>>
         \o Ind4 \o <<"#", " Make a bare clone of the repository", NL>>
         \o Ind4 \o BareClone(ly) \o <<NL>>
         \o Ind4, BOTH),
       S("chdir", "bare", <<>>, LAST),
       S("run", "",
         Ind4 \o <<"#", " Mirror-push to the new repository", NL>>
         \o Ind4 \o MirrorPush(ty) \o <<NL>>
         \o Ind4, THIS),
       S("rmtree", "create", <<>>, {}),
       S("say", "", <<"Created: ">> \o GitHub \o <<"hugovk", "/">> \o Str(ty), {}) >>

clone_repo(ty, ly) ==
    << S("mkdir", "update", <<>>, {}),
       S("run", "", Clone(ty), THIS) >>

update_readme(ty, ly) ==
    << S("chdir", "clone", <<>>, THIS),
       S("readme", "", <<>>, BOTH),
       S("run", "", <<"git add README.md">>, {}),
       S("run", "", <<"git commit -m '">> \o Str(ly) \o <<" -> ">> \o Str(ty) \o <<"'">>, BOTH),
       S("run", "", <<"git push">>, {}) >>

create_labels(ty, ly) ==
    << S("chdir", "clone", <<>>, THIS),
       S("run", "", <<"gh label clone ", "NaNoGenMo", "/">> \o Str(ly), LAST),
       S("run", "", LabelList, {}) >>
    \o [i \in 1..Len(DefaultLabels) |-> S("run", "", LabelDelete(DefaultLabels[i]), {})]
    \o << S("run", "", LabelList, {}),
          S("say", "", GitHub \o <<"hugovk", "/">> \o Str(ty) \o <<"/", "labels">>, THIS) >>

create_issues(ty, ly) ==
    << S("chdir", "clone", <<>>, THIS),
       S("issues", "", <<>>, LAST),
       S("run", "", IssueCreate("/tmp/issue1.txt", "Resources"), {}),
       S("run", "", IssueCreate("/tmp/issue2.txt", "Press and other coverage"), {}),
       S("run", "", <<"gh issue list">>, {}) >>

\* the statements of operation o when the year functions return ty and ly
Body(o, ty, ly) ==
    CASE o = 1 -> create_repo(ty, ly)
      [] o = 2 -> clone_repo(ty, ly)
      [] o = 3 -> update_readme(ty, ly)
      [] o = 4 -> create_labels(ty, ly)
      [] o = 5 -> create_issues(ty, ly)

\* the years the functions return when called now
TY == this_year(cacheThis, clock)
LY == last_year(cacheLast, cacheThis, clock)

AtStmt == status = "running" /\ op \in 1..Len(Ops) /\ step >= 1 /\ ~inRun
HasStmt == AtStmt /\ step <= Len(Body(op, TY, LY))
Stmt == Body(op, TY, LY)[step]

(***************************************************************************)
(* What the process did: the trace                                         *)
(***************************************************************************)
\* the directories that exist; the one the process started in always does
Existing == dirs \cup {"start"}

Event(k, line, d, rc) ==
    [kind |-> k, op |-> op, line |-> line, dir |-> d, rc |-> rc, cwdExists |-> cwd \in Existing]

(***************************************************************************)
(* run_commands                                                            *)
(***************************************************************************)
\* what the shell takes for a comment: the first non-blank of the line is '#'
IsComment(line) == Indent(line) # line /\ line[Len(Indent(line)) + 1] = "#"

\* the exit statuses the shell can give for a line: a comment line does nothing
ExitCodes(line) == IF IsComment(line) THEN {0} ELSE {0, 1}

\* the lines the for loop of run_commands goes through
CommandLines(text) == SplitLines(Dedent(text))

\* the loop without its if: every line goes to the shell
RunsEveryLine(line) == TRUE

\* if command: a line is run when it is not the empty string
IsRun(line) == line # <<>>

\* check=False: the exit status is not looked at
NeverRaises(rc) == FALSE

\* check=True: a non-zero exit status raises CalledProcessError
Raises(rc) == rc # 0

\* what a command that exits 0 leaves behind
Effect(line) ==
    /\ remote' = IF StartsWith(line, <<"gh repo create ">>) THEN remote \cup {"new"} ELSE remote
    /\ dirs' = IF StartsWith(line, <<"git clone --bare ">>) /\ cwd = "create" /\ cwd \in Existing
                 THEN dirs \cup {"bare"}
               ELSE IF StartsWith(line, <<"git clone ">>) THEN dirs \cup {"update", "clone"}
               ELSE dirs

\* the call: dedent the text and split it into lines
BeginRun(text) ==
    /\ ~inRun
    /\ inRun' = TRUE
    /\ commands' = text
    /\ pending' = CommandLines(text)
    /\ UNCHANGED <<status, trace>>

\* one turn of the loop on an empty line
SkipLine ==
    /\ inRun /\ status = "running" /\ pending # <<>>
    /\ ~IsRun(Head(pending))
    /\ pending' = Tail(pending)
    /\ UNCHANGED <<yearVars, mainVars, readmeVars, issueVars, commands, inRun, status, trace>>

\* one turn of the loop on a command: print it, run it, raise if it failed
RunLine ==
    /\ inRun /\ status = "running" /\ pending # <<>>
    /\ IsRun(Head(pending))
    /\ \E rc \in ExitCodes(Head(pending)) :
        /\ trace' = trace \o <<Event("print", Head(pending), "", 0), Event("exec", Head(pending), "", rc)>>
        /\ IF Raises(rc)
             THEN status' = "failed" /\ UNCHANGED <<remote, dirs>>
             ELSE status' = status /\ Effect(Head(pending))
    /\ pending' = Tail(pending)
    /\ UNCHANGED <<yearVars, args, op, step, cwd, readmeVars, issueVars, commands, inRun>>

\* the loop is over: run_commands returns
EndRun ==
    /\ inRun /\ status = "running" /\ pending = <<>>
    /\ inRun' = FALSE
    /\ step' = step + 1
    /\ UNCHANGED <<yearVars, args, op, cwd, dirs, remote, readmeVars, issueVars, commands, pending, status, trace>>

(***************************************************************************)
(* The statements of the operations                                        *)
(***************************************************************************)
StmtRun ==
    /\ HasStmt /\ Stmt.k = "run"
    /\ BeginRun(Stmt.text)
    /\ CallYears(Stmt.uses)
    /\ UNCHANGED <<clock, mainVars, readmeVars, issueVars>>

StmtSay ==
    /\ HasStmt /\ Stmt.k = "say"
    /\ trace' = Append(trace, Event("say", Stmt.text, "", 0))
    /\ CallYears(Stmt.uses)
    /\ step' = step + 1
    /\ UNCHANGED <<clock, args, op, cwd, dirs, remote, readmeVars, issueVars, commands, pending, inRun, status>>

\* Path(dir).mkdir(parents=True, exist_ok=True)
StmtMkdir ==
    /\ HasStmt /\ Stmt.k = "mkdir"
    /\ dirs' = dirs \cup {Stmt.dir}
    /\ trace' = Append(trace, Event("mkdir", <<>>, Stmt.dir, 0))
    /\ CallYears(Stmt.uses)
    /\ step' = step + 1
    /\ UNCHANGED <<clock, args, op, cwd, remote, readmeVars, issueVars, commands, pending, inRun, status>>

\* os.chdir(dir): FileNotFoundError when the directory does not exist
StmtChdir ==
    /\ HasStmt /\ Stmt.k = "chdir"
    /\ CallYears(Stmt.uses)
    /\ IF Stmt.dir \in Existing
         THEN /\ cwd' = Stmt.dir
              /\ trace' = Append(trace, Event("chdir", <<>>, Stmt.dir, 0))
              /\ step' = step + 1
              /\ UNCHANGED status
         ELSE /\ status' = "failed"
              /\ trace' = Append(trace, Event("chdir", <<>>, Stmt.dir, 1))
              /\ UNCHANGED <<cwd, step>>
    /\ UNCHANGED <<clock, args, op, dirs, remote, readmeVars, issueVars, commands, pending, inRun>>

\* the directories under d, d included
Under(d) == IF d = "create" THEN {"create", "bare"} ELSE IF d = "update" THEN {"update", "clone"} ELSE {d}

\* shutil.rmtree(dir): an error of the removal is raised
StmtRmtreeRaising ==
    /\ HasStmt /\ Stmt.k = "rmtree"
    /\ \E gone \in {Under(Stmt.dir), Under(Stmt.dir) \ {Stmt.dir}, {}} :
        /\ dirs' = dirs \ gone
        /\ trace' = Append(trace, Event("rmtree", <<>>, Stmt.dir, IF gone = Under(Stmt.dir) THEN 0 ELSE 1))
        /\ IF gone = Under(Stmt.dir)
             THEN step' = step + 1 /\ status' = status
             ELSE step' = step /\ status' = "failed"
    /\ CallYears(Stmt.uses)
    /\ UNCHANGED <<clock, args, op, cwd, remote, readmeVars, issueVars, commands, pending, inRun>>

\* shutil.rmtree(dir, ignore_errors=True): the tree is removed, or as much of
\* it as could be; what could not be removed is left without an error
StmtRmtree ==
    /\ HasStmt /\ Stmt.k = "rmtree"
    /\ \E gone \in {Under(Stmt.dir), Under(Stmt.dir) \ {Stmt.dir}, {}} :
        /\ dirs' = dirs \ gone
        /\ trace' = Append(trace, Event("rmtree", <<>>, Stmt.dir, IF gone = Under(Stmt.dir) THEN 0 ELSE 1))
    /\ CallYears(Stmt.uses)
    /\ step' = step + 1
    /\ UNCHANGED <<clock, args, op, cwd, remote, readmeVars, issueVars, commands, pending, inRun, status>>

\* update_readme, from open("README.md") to f.write(readme)
RewriteReadme ==
    /\ readme' = UpdatedReadme(readme, LY, TY)
    /\ readmePrev' = readme
    /\ passes' = passes + 1
    /\ readme0' = IF passes = 0 THEN readme ELSE readme0
    /\ CallYears(BOTH)

StmtReadme ==
    /\ HasStmt /\ Stmt.k = "readme"
    /\ RewriteReadme
    /\ trace' = Append(trace, Event("write", <<"README.md">>, cwd, 0))
    /\ step' = step + 1
    /\ UNCHANGED <<clock, args, op, cwd, dirs, remote, issueVars, commands, pending, inRun, status>>

\* create_issues, from the first text to the second f.write(text)
StmtIssues ==
    /\ HasStmt /\ Stmt.k = "issues"
    /\ issue1' = Issue1Text(LY)
    /\ issue2' = Issue2Text(LY)
    /\ CallYears(Stmt.uses)
    /\ trace' = Append(trace, Event("write", <<"/tmp/issue1.txt", "/tmp/issue2.txt">>, "", 0))
    /\ step' = step + 1
    /\ UNCHANGED <<clock, args, op, cwd, dirs, remote, readmeVars, commands, pending, inRun, status>>

\* the operation returns to main
Return ==
    /\ AtStmt /\ step > Len(Body(op, TY, LY))
    /\ op' = op + 1
    /\ step' = 0
    /\ UNCHANGED <<yearVars, args, cwd, dirs, remote, readmeVars, issueVars, runVars>>

(***************************************************************************)
(* main                                                                    *)
(***************************************************************************)
\* main without its ifs: every operation is called
MainCallsAll ==
    /\ status = "running" /\ op \in 1..Len(Ops) /\ step = 0
    /\ step' = 1 /\ op' = op
    /\ UNCHANGED <<yearVars, args, cwd, dirs, remote, readmeVars, issueVars, runVars>>

\* if args.<operation>: call it, or go on to the next if
MainIf ==
    /\ status = "running" /\ op \in 1..Len(Ops) /\ step = 0
    /\ IF Ops[op] \in args THEN step' = 1 /\ op' = op ELSE step' = 0 /\ op' = op + 1
    /\ UNCHANGED <<yearVars, args, cwd, dirs, remote, readmeVars, issueVars, runVars>>

\* main returns: the process exits with status 0
MainExit ==
    /\ status = "running" /\ op = Len(Ops) + 1
    /\ status' = "done"
    /\ UNCHANGED <<yearVars, mainVars, readmeVars, issueVars, commands, pending, inRun, trace>>

\* the README of the repository of year y, as the updater expects it
SampleReadme(y) ==
    Title(y) \o <<NL>> \o Edition(y) \o <<NL>> \o IssueQuery(y) \o <<NL>>
    \o YearEntry(y - 1) \o <<NL>> \o IssueEntry(y - 1, 1) \o <<NL>>

\* the scratch directories a run can find: none, or what earlier runs left
DirStates ==
    {ds \in SUBSET {"create", "bare", "update", "clone"} :
        /\ "bare" \in ds => "create" \in ds
        /\ "clone" \in ds => "update" \in ds}

Init ==
    /\ clock \in Years
    /\ cacheThis = <<>> /\ cacheLast = <<>>
    /\ retThis = {} /\ retLast = {}
    /\ args \in SUBSET {Ops[i] : i \in 1..Len(Ops)}
    /\ op = 1 /\ step = 0
    /\ commands = <<>> /\ pending = <<>> /\ inRun = FALSE
    /\ status = "running"
    /\ cwd = "start"
    /\ dirs \in DirStates
    /\ remote = {}
    /\ trace = <<>>
    /\ readme = SampleReadme(clock - 1)
    /\ readme0 = <<>> /\ readmePrev = <<>> /\ passes = 0
    /\ issue1 = <<>> /\ issue2 = <<>>

Next ==
    \/ MainIf
    \/ MainExit
    \/ StmtSay
    \/ StmtMkdir
    \/ StmtChdir
    \/ StmtRmtree
    \/ StmtReadme
    \/ StmtIssues
    \/ StmtRun
    \/ SkipLine
    \/ RunLine
    \/ EndRun
    \/ Return

Spec == Init /\ [][Next]_vars

(***************************************************************************)
(* The year resolver on its own: calls in any order, the clock moving on   *)
(***************************************************************************)
IdleMain ==
    /\ args = {} /\ op = 1 /\ step = 0
    /\ cwd = "start" /\ dirs = {} /\ remote = {}

IdleRun ==
    /\ commands = <<>> /\ pending = <<>> /\ inRun = FALSE
    /\ status = "running" /\ trace = <<>>

IdleReadme == readme = <<>> /\ readme0 = <<>> /\ readmePrev = <<>> /\ passes = 0

IdleIssues == issue1 = <<>> /\ issue2 = <<>>

InitYear ==
    /\ clock \in Years
    /\ cacheThis = <<>> /\ cacheLast = <<>>
    /\ retThis = {} /\ retLast = {}
    /\ IdleMain /\ IdleRun /\ IdleReadme /\ IdleIssues

CallThisYear ==
    /\ CallYears(THIS)
    /\ UNCHANGED <<clock, mainVars, runVars, readmeVars, issueVars>>

CallLastYear ==
    /\ CallYears(LAST)
    /\ UNCHANGED <<clock, mainVars, runVars, readmeVars, issueVars>>

\* New Year: datetime.now().year is one more from now on
Tick ==
    /\ clock < MaxYear
    /\ clock' = clock + 1
    /\ UNCHANGED <<cacheThis, cacheLast, retThis, retLast, mainVars, runVars, readmeVars, issueVars>>

NextYear == CallThisYear \/ CallLastYear \/ Tick

SpecYear == InitYear /\ [][NextYear]_vars

(***************************************************************************)
(* run_commands on its own: any block of text                              *)
(***************************************************************************)
MaxLines == 4

\* lines a block can hold: empty, blanks only, commands with and without
\* indentation, a comment
LineChoices ==
    { <<>>, <<SP, SP>>, <<"a">>, <<SP, "b">>, <<SP, SP, "#", "c">>, <<TAB, "d">> }

RECURSIVE TextsOf(_)
\* the texts of at most n lines of LineChoices, with or without a last newline
TextsOf(n) ==
    IF n = 0 THEN {<<>>}
    ELSE LET shorter == TextsOf(n - 1)
         IN  shorter
             \cup {t \o l : t \in {x \in shorter : x = <<>> \/ x[Len(x)] = NL}, l \in LineChoices}
             \cup {t \o l \o <<NL>> : t \in {x \in shorter : x = <<>> \/ x[Len(x)] = NL}, l \in LineChoices}

Blocks == TextsOf(MaxLines)

InitRun ==
    /\ clock = MinYear
    /\ cacheThis = <<>> /\ cacheLast = <<>>
    /\ retThis = {} /\ retLast = {}
    /\ IdleMain /\ IdleReadme /\ IdleIssues
    /\ commands \in Blocks
    /\ pending = <<>> /\ inRun = FALSE
    /\ status = "running" /\ trace = <<>>

\* run_commands(commands) is called once
CallRunCommands ==
    /\ step = 0 /\ status = "running"
    /\ BeginRun(commands)
    /\ UNCHANGED <<yearVars, mainVars, readmeVars, issueVars>>

NextRun == CallRunCommands \/ SkipLine \/ RunLine \/ EndRun

SpecRun == InitRun /\ [][NextRun]_vars

(***************************************************************************)
(* The README updater on its own: any README, updated again and again      *)
(***************************************************************************)
MaxFrag == 2
MaxPasses == 2

\* pieces a README is made of: the texts the updater looks for, whole and
\* in parts, the years on their own, and the characters around them
Fragments(y) ==
    { Title(y), IssueQuery(y), Edition(y), YearEntry(y - 1), IssueEntry(y - 1, 1),
      Title(y + 1), YearEntry(y), IssueEntry(y, 1),
      <<"#", SP, "NaNoGenMo", SP>>, <<"NaNoGenMo", "/">>, <<"/", "issues">>,
      <<"?q=label">>, <<"/", "1", ")">>, <<")">>, <<NL>>,
      Str(y), Str(y - 1), Str(y + 1) }

RECURSIVE Drafts(_, _)
\* the texts of at most n fragments
Drafts(y, n) ==
    IF n = 0 THEN {<<>>}
    ELSE LET shorter == Drafts(y, n - 1)
         IN  shorter \cup {t \o f : t \in shorter, f \in Fragments(y)}

ReadmeInputs(y) ==
    Drafts(y, MaxFrag) \cup {SampleReadme(y), SampleReadme(y) \o SampleReadme(y)}

ReadmeYears == {MaxYear - 1}

InitReadme ==
    /\ clock \in ReadmeYears
    /\ cacheThis = <<>> /\ cacheLast = <<>>
    /\ retThis = {} /\ retLast = {}
    /\ IdleMain /\ IdleRun /\ IdleIssues
    /\ readme \in ReadmeInputs(clock - 1)
    /\ readme0 = <<>> /\ readmePrev = <<>> /\ passes = 0

\* the README is updated once more, by the same process
UpdateReadme ==
    /\ passes < MaxPasses
    /\ RewriteReadme
    /\ UNCHANGED <<clock, mainVars, runVars, issueVars>>

NextReadme == UpdateReadme \/ (Tick /\ passes < MaxPasses)

SpecReadme == InitReadme /\ [][NextReadme]_vars

(***************************************************************************)
(* Properties                                                              *)
(***************************************************************************)
\* the events of one kind, in order
Of(kind) == SelectSeq(trace, LAMBDA e : e.kind = kind)

Execs == Of("exec")

\* the places of the trace where a command exited non-zero
FailedAt == {i \in 1..Len(trace) : trace[i].kind = "exec" /\ trace[i].rc # 0}

\* the places of the trace where line was run
RanAt(line) == {i \in 1..Len(trace) : trace[i].kind = "exec" /\ trace[i].line = line}

\* the places of the trace where line was run and exited 0
OkAt(line) == {i \in RanAt(line) : trace[i].rc = 0}

\* the places of an event of this kind on this directory
DirAt(kind, d) == {i \in 1..Len(trace) : trace[i].kind = kind /\ trace[i].dir = d}

\* every place of A is before every place of B
Before(A, B) == \A i \in A : \A j \in B : i < j

\* C5: within one process every call of this_year() returns the same value,
\* every call of last_year() returns the same value, and that value is one
\* less than what this_year() returns, however the calls and the New Years
\* interleave.
C5_YearsStable ==
    /\ Cardinality(retThis) <= 1
    /\ Cardinality(retLast) <= 1
    /\ \A l \in retLast : l = this_year(cacheThis, clock) - 1 /\ retThis = {l + 1}

\* C5: both functions were called and the clock has since moved to a later year
C5_Witness ==
    /\ retThis # {} /\ retLast # {}
    /\ \A t \in retThis : clock > t

\* the lines of the text given to run_commands that are not empty once the
\* text is dedented, in their order
Expected == SelectSeq(SplitLines(Dedent(commands)), LAMBDA l : l # <<>>)

\* C1: the commands run are the non-empty lines of the dedented block, in
\* order, each printed just before it is run; a command that exits non-zero is
\* the last thing printed or run, and a call that returns has run them all.
C1_RunsNonEmptyLinesInOrder ==
    /\ Len(trace) % 2 = 0
    /\ \A i \in 1..Len(trace) :
        IF i % 2 = 1
          THEN trace[i].kind = "print" /\ trace[i].line = trace[i + 1].line
          ELSE trace[i].kind = "exec"
    /\ Len(Execs) <= Len(Expected)
    /\ \A i \in 1..Len(Execs) : Execs[i].line = Expected[i]
    /\ \A i \in FailedAt : i = Len(trace) /\ status = "failed"
    /\ status = "failed" => FailedAt # {}
    /\ step = 1 => Len(Execs) = Len(Expected)

\* C1: a block with a blank line and a comment whose first command failed
\* while another was still to come
C1_Witness ==
    /\ status = "failed"
    /\ Len(Execs) < Len(Expected)
    /\ \E i \in 1..Len(Execs) : IsComment(Execs[i].line)
    /\ Len(SplitLines(commands)) > Len(Expected)

\* the index of the operation named n
OpIndex(n) == CHOOSE i \in 1..Len(Ops) : Ops[i] = n

\* C6: what is done is done by selected operations only, in the order
\* create_repo, clone_repo, update_readme, create_labels, create_issues; a
\* run that ends well has run every selected operation; and a command that
\* exits non-zero is the last thing the process does and makes it fail.
C6_OrderAndAbort ==
    /\ \A i \in 1..Len(trace) : Ops[trace[i].op] \in args
    /\ \A i, j \in 1..Len(trace) : i < j => trace[i].op <= trace[j].op
    /\ status = "done" => \A n \in args : \E i \in 1..Len(trace) : trace[i].op = OpIndex(n)
    /\ \A i \in FailedAt : i = Len(trace) /\ status = "failed"

\* C6: a command of the second of three selected operations failed after the
\* first had run
C6_Witness ==
    /\ status = "failed"
    /\ args = {"clone_repo", "update_readme", "create_issues"}
    /\ FailedAt # {}
    /\ trace[Len(trace)].op = 3
    /\ trace[Len(trace)].line = <<"git push">>

\* the delete commands of the default labels that were run, in order
DeletesRun == SelectSeq(Execs, LAMBDA e : e.op = 4 /\ StartsWith(e.line, <<"gh label delete --yes ">>))

\* the label listings that were run
ListingsRun == SelectSeq(Execs, LAMBDA e : e.op = 4 /\ e.line = LabelList)

\* C8, as claimed: once the run is over, a delete command that exited
\* non-zero has been followed by the delete commands of all the default
\* labels after it and by the second label listing.
C8_AsClaimed ==
    (status # "running" /\ \E i \in 1..Len(DeletesRun) : DeletesRun[i].rc # 0)
        => Len(DeletesRun) = Len(DefaultLabels) /\ Len(ListingsRun) = 2

\* C8, amended: the delete commands run are those of the first default
\* labels, in the order of the list; one that exits non-zero is the last
\* command of the run, which fails: no later label is deleted and the labels
\* are not listed again.
C8_DeleteFailureAborts ==
    /\ Len(DeletesRun) <= Len(DefaultLabels)
    /\ \A i \in 1..Len(DeletesRun) :
        /\ DeletesRun[i].line = LabelDelete(DefaultLabels[i])
        /\ DeletesRun[i].rc # 0 =>
            /\ i = Len(DeletesRun)
            /\ status = "failed"
            /\ Len(ListingsRun) = 1
            /\ trace[Len(trace)] = DeletesRun[i]

\* C8: the delete command of the third default label failed
C8_Witness ==
    /\ Len(DeletesRun) = 3
    /\ DeletesRun[3].rc # 0
    /\ status = "failed"

\* C9: in create_repo the scratch directory is made and entered, then the
\* remote is created, then the bare clone made, then the mirror-push run,
\* then the scratch directory removed; the push runs only after both the
\* creation and the clone exited 0, the removal only after the push exited 0;
\* a removal that fails does not make the operation fail; and when the
\* operation fails after the remote was created, the remote exists and the
\* scratch directory is still there.
C9_CreateRepoOrder ==
    LET mk == DirAt("mkdir", "create")
        cd == {i \in DirAt("chdir", "create") : trace[i].rc = 0}
        new == RanAt(RepoCreate(TY))
        bare == RanAt(BareClone(LY))
        push == RanAt(MirrorPush(TY))
        rm == DirAt("rmtree", "create")
    IN  /\ Before(mk, cd) /\ Before(cd, new) /\ Before(new, bare)
        /\ Before(bare, push) /\ Before(push, rm)
        /\ new # {} => mk # {} /\ cd # {}
        /\ push # {} => OkAt(RepoCreate(TY)) # {} /\ OkAt(BareClone(LY)) # {}
        /\ rm # {} => OkAt(MirrorPush(TY)) # {}
        /\ rm # {} => ~(status = "failed" /\ op = 1)
        /\ (status = "failed" /\ op = 1 /\ OkAt(RepoCreate(TY)) # {})
              => "new" \in remote /\ "create" \in dirs

\* C9: the mirror-push failed after the remote was created and the clone made
C9_Witness ==
    /\ status = "failed" /\ op = 1
    /\ trace[Len(trace)].line = MirrorPush(TY)
    /\ OkAt(RepoCreate(TY)) # {} /\ OkAt(BareClone(LY)) # {}
    /\ "new" \in remote /\ {"create", "bare"} \subseteq dirs

\* C10, as claimed: every command is run while the working directory of the
\* process exists.
C10_AsClaimed == \A i \in 1..Len(trace) : trace[i].kind = "exec" => trace[i].cwdExists

\* the places of text where p starts
Places(text, p) == {i \in 1..(Len(text) - Len(p) + 1) : SubSeq(text, i, i + Len(p) - 1) = p}

\* the title, the issue-query link and the edition sentence of year y
YearTexts(y) == <<Title(y), IssueQuery(y), Edition(y)>>

\* the list entries the updater looks for when last year is p
ListEntries(p) == <<YearEntry(p - 1), IssueEntry(p - 1, 1)>>

\* C2, as claimed: a second update of a README that held last year's title,
\* link, sentence and both list entries changes nothing.
C2_AsClaimed ==
    (/\ passes >= 2
     /\ \A k \in 1..3 : Contains(readme0, YearTexts(LY)[k])
     /\ \A k \in 1..2 : Contains(readme0, ListEntries(LY)[k]))
        => readme = readmePrev

\* the two list insertions alone
ListInsertions(text, p) ==
    Replace(Replace(text, YearEntry(p - 1), YearEntry(p) \o <<NL>> \o YearEntry(p - 1)),
            IssueEntry(p - 1, 1), IssueEntry(p - 1, 1) \o <<NL>> \o IssueEntry(p, 1))

\* C2, amended: an update after the first finds no title, link or sentence of
\* last year to replace, but it does the two list insertions again: every
\* (last_year - 1) list entry gets one more last_year entry, so the update
\* changes nothing only when the README holds no such entry.
C2_SecondPassInsertsAgain ==
    passes >= 2 =>
        /\ \A k \in 1..3 :
            /\ ~Contains(readmePrev, YearTexts(LY)[k])
            /\ Places(readme, YearTexts(TY)[k]) = Places(ListInsertions(readmePrev, LY), YearTexts(TY)[k])
        /\ readme = ListInsertions(readmePrev, LY)
        /\ Count(readme, YearEntry(LY)) = Count(readmePrev, YearEntry(LY)) + Count(readmePrev, YearEntry(LY - 1))
        /\ Count(readme, IssueEntry(LY, 1)) = Count(readmePrev, IssueEntry(LY, 1)) + Count(readmePrev, IssueEntry(LY - 1, 1))
        /\ readme = readmePrev <=> \A k \in 1..2 : ~Contains(readmePrev, ListEntries(LY)[k])

\* C2: the sample README was updated twice and the second update changed it
C2_Witness ==
    /\ passes = 2
    /\ readme0 = SampleReadme(LY)
    /\ readme # readmePrev

\* C3: after an update the README holds no title, link or sentence of last
\* year, and wherever the README held one before, it holds this year's in its
\* place: the text before and the text after are updated on their own.
C3_ReplacedInPlace ==
    passes >= 1 =>
        \A k \in 1..3 :
            LET old == YearTexts(LY)[k]
                new == YearTexts(TY)[k]
            IN  /\ ~Contains(readme, old)
                /\ \A i \in Places(readmePrev, old) :
                    readme = UpdatedReadme(SubSeq(readmePrev, 1, i - 1), LY, TY)
                             \o new
                             \o UpdatedReadme(SubSeq(readmePrev, i + Len(old), Len(readmePrev)), LY, TY)
                /\ Count(readme, new) = Count(readmePrev, new) + Count(readmePrev, old)

\* C3: a README with last year's title, link and sentence was updated
C3_Witness ==
    /\ passes = 1
    /\ \A k \in 1..3 : Contains(readme0, YearTexts(LY)[k]) /\ Contains(readme, YearTexts(TY)[k])
    /\ Contains(readme0, Title(LY) \o <<NL>>)

\* the label of a link line, the text between "* [" and "]"; empty for
\* another line
LabelOf(l) ==
    IF StartsWith(l, <<"*", SP, "[">>) /\ \E k \in 4..Len(l) : l[k] = "]"
      THEN SubSeq(l, 4, (CHOOSE k \in 4..Len(l) : l[k] = "]" /\ \A j \in 4..(k - 1) : l[j] # "]") - 1)
      ELSE <<>>

DigitValue(a) == CHOOSE d \in 0..9 : Digit(d) = a

RECURSIVE Value(_)
\* the number a text of digits stands for
Value(ds) == IF ds = <<>> THEN 0 ELSE 10 * Value(SubSeq(ds, 1, Len(ds) - 1)) + DigitValue(ds[Len(ds)])

\* the years the link lines of a body are for, in order
LinkYears(text) ==
    LET ls == SplitLines(text)
        links == SelectSeq(ls, LAMBDA l : LabelOf(l) # <<>>)
    IN  [i \in 1..Len(links) |-> Value(LabelOf(links[i]))]

Issue1IntroLines ==
    << <<"This is an open issue where you can comment and add resources that might come in handy for NaNoGenMo.">>,
       <<>>,
       <<"There are already a ton of resources on the old resources threads of previous editions:">>,
       <<>> >>

\* C4: the Resources body is its introduction, then one link line for each
\* year from last year down to 2016, then the link lines of 2015, 2014 and
\* 2013, and nothing more.
C4_ResourcesBody ==
    (issue1 # <<>> /\ LY >= FloorYear) =>
        LET ls == SplitLines(issue1)
            n == LY - FloorYear + 1
        IN  /\ issue1[Len(issue1)] = NL
            /\ Len(ls) = 4 + n + 3
            /\ SubSeq(ls, 1, 4) = Issue1IntroLines
            /\ \A i \in 1..n : ls[4 + i] = IssueEntry(LY + 1 - i, 1)
            /\ \A i \in 5..Len(ls) : LabelOf(ls[i]) # <<>> /\ ls[i][Len(ls[i])] = ")"
            /\ LinkYears(issue1) = [i \in 1..(n + 3) |-> LY + 1 - i]
            /\ \A i \in 1..3 : ~Contains(ls[4 + n + i], <<"NaNoGenMo", "/">> \o Str(FloorYear - i))

\* C4: the body was written with 2024 as last year
C4_Witness ==
    /\ issue1 # <<>>
    /\ retLast = {2024}
    /\ Len(SplitLines(issue1)) = 16

\* C7, as claimed: in both bodies the lines after those of the loop are for
\* years before 2016, and no year has two link lines.
C7_AsClaimed ==
    \A text \in {issue1, issue2} :
        text # <<>> =>
            LET ys == LinkYears(text)
                n == LY - FloorYear + 1
            IN  /\ \A i \in 1..Len(ys) : i <= n => ys[i] = LY + 1 - i
                /\ \A i \in 1..Len(ys) : i > n => ys[i] < FloorYear
                /\ \A i, j \in 1..Len(ys) : i # j => ys[i] # ys[j]

====
